---- MODULE Spec2Model ----
(***************************************************************************)
(* Model of the highlight pipeline of AI-Video-Highlighter:                *)
(*   VideoProcessor.process_video and the methods it calls                 *)
(*   (src/audio_highlighter/video_processor.py; the same code is repeated  *)
(*   in src/extraction/process_video.py).                                  *)
(*                                                                         *)
(* A response text is a sequence of tokens.  A token stands for a piece of *)
(* text that the regular expressions of _parse_highlights_for_video tell   *)
(* apart:                                                                  *)
(*   label   the literal  Interesting_Moments:                             *)
(*   escaped the literal  Interesting\_Moments:  (a backslash before "_")  *)
(*   other   a line of another section                                     *)
(*   ws      a run of whitespace                                           *)
(*   fence   the literal  ```                                              *)
(*   num     a numbered-list marker: newline, optional blanks, digits, "." *)
(*   title   a line  Title: ...                                            *)
(*   start   a line  Start_Time: <t>                                       *)
(*   end     a line  End_Time: <t>                                         *)
(*   why     a line  Why_Interesting: ...                                  *)
(* A timestamp text hh:mm:ss is the tuple <<hh, mm, ss>>; a text that the  *)
(* pattern \d{2}:\d{2}:\d{2} does not match is a tuple of another length.  *)
(***************************************************************************)
EXTENDS Integers, Sequences, FiniteSets, TLC

\* ------------------------------------------------------------------ bounds
\* longest arbitrary token text handed to the parser
MaxTextLen == 5
\* most records of a rendered response handed to the parser
MaxRecords == 3
\* most records of a response of the text-generation service in a pipeline run
MaxSegs == 2

\* ------------------------------------------------------------------ tokens
NoT == <<>>
BadT == <<1, 23>>

Tok(kind, time) == [k |-> kind, t |-> time]

\* the pattern (\d{2}:\d{2}:\d{2}) of the Start_Time / End_Time searches
ValidTime(t) == Len(t) = 3 /\ \A n \in 1..3 : t[n] \in 0..99

\* ------------------------------------------------------------------ parser
\* re.search(r"Interesting_Moments:\s*```(.*?)```", text, re.DOTALL):
\* a match starts at label i, runs over whitespace to the opening fence j and
\* lazily to the first closing fence c.
OpenFenceAt(text, i, j) ==
    /\ i < j
    /\ j <= Len(text)
    /\ text[i].k = "label"
    /\ text[j].k = "fence"
    /\ \A m \in (i + 1)..(j - 1) : text[m].k = "ws"

CloseFences(text, j) == {c \in (j + 1)..Len(text) : text[c].k = "fence"}

MatchStarts(text) ==
    {i \in 1..Len(text) :
        \E j \in (i + 1)..Len(text) :
            OpenFenceAt(text, i, j) /\ CloseFences(text, j) # {}}

Min(S) == CHOOSE x \in S : \A y \in S : x <= y

\* a slip: the pattern r"Interesting_Moments:\s*```(.*)", no closing fence
InterestingMomentsMatchOpen(text) ==
    LET starts == {i \in 1..Len(text) :
                      \E j \in (i + 1)..Len(text) : OpenFenceAt(text, i, j)}
    IN  IF starts = {}
        THEN [found |-> FALSE, body |-> <<>>]
        ELSE LET i == Min(starts)
                 j == CHOOSE jj \in (i + 1)..Len(text) : OpenFenceAt(text, i, jj)
             IN  [found |-> TRUE, body |-> SubSeq(text, j + 1, Len(text))]

\* group(1) of the leftmost match; <<FALSE, <<>>>> when re.search returns None
InterestingMomentsMatch(text) ==
    IF MatchStarts(text) = {}
    THEN [found |-> FALSE, body |-> <<>>]
    ELSE LET i == Min(MatchStarts(text))
             j == CHOOSE jj \in (i + 1)..Len(text) : OpenFenceAt(text, i, jj)
             c == Min(CloseFences(text, j))
         IN  [found |-> TRUE, body |-> SubSeq(text, j + 1, c - 1)]

\* re.findall(r"Title:.*?(?=\n\s*\d+\.|\Z)", moments_text, re.DOTALL):
\* scanning from position p, a block starts at the next Title: and runs
\* lazily up to (not including) the next numbered-list marker, or to the end.
RECURSIVE MomentBlocksFrom(_, _)
MomentBlocksFrom(body, p) ==
    LET titles == {q \in p..Len(body) : body[q].k = "title"}
    IN  IF titles = {}
        THEN <<>>
        ELSE LET s    == Min(titles)
                 nums == {q \in (s + 1)..Len(body) : body[q].k = "num"}
                 e    == IF nums = {} THEN Len(body) ELSE Min(nums) - 1
             IN  <<SubSeq(body, s, e)>> \o MomentBlocksFrom(body, e + 1)

MomentBlocks(body) == MomentBlocksFrom(body, 1)

\* re.search(r"<label>:\s*(\d{2}:\d{2}:\d{2})", block): the first line of the
\* kind whose value matches the pattern
TimeMatches(block, kind) ==
    {q \in 1..Len(block) : block[q].k = kind /\ ValidTime(block[q].t)}

TimeMatch(block, kind) ==
    IF TimeMatches(block, kind) = {}
    THEN NoT
    ELSE block[Min(TimeMatches(block, kind))].t

\* a slip: segments.insert(0, ...), the pairs come out last record first
RECURSIVE SegmentsOfReversed(_)
SegmentsOfReversed(blocks) ==
    IF blocks = <<>>
    THEN <<>>
    ELSE LET b == Head(blocks)
             s == TimeMatch(b, "start")
             e == TimeMatch(b, "end")
         IN  SegmentsOfReversed(Tail(blocks))
                 \o (IF s # NoT /\ e # NoT THEN <<<<s, e>>>> ELSE <<>>)

\* a slip: "if start_time_match or end_time_match"
RECURSIVE SegmentsOfEither(_)
SegmentsOfEither(blocks) ==
    IF blocks = <<>>
    THEN <<>>
    ELSE LET b == Head(blocks)
             s == TimeMatch(b, "start")
             e == TimeMatch(b, "end")
         IN  (IF s # NoT \/ e # NoT THEN <<<<s, e>>>> ELSE <<>>)
                 \o SegmentsOfEither(Tail(blocks))

\* the loop over moment_blocks: append (start, end) when both searches match
RECURSIVE SegmentsOf(_)
SegmentsOf(blocks) ==
    IF blocks = <<>>
    THEN <<>>
    ELSE LET b == Head(blocks)
             s == TimeMatch(b, "start")
             e == TimeMatch(b, "end")
         IN  (IF s # NoT /\ e # NoT THEN <<<<s, e>>>> ELSE <<>>)
                 \o SegmentsOf(Tail(blocks))

\* the body of the try block.  ht.str = FALSE is a highlights_text that is
\* not a string: re.search raises TypeError.
ParseTry(ht) ==
    IF ~ht.str
    THEN [raised |-> TRUE, segs |-> <<>>]
    ELSE LET m == InterestingMomentsMatch(ht.toks)
         IN  IF ~m.found
             THEN [raised |-> FALSE, segs |-> <<>>]
             ELSE [raised |-> FALSE, segs |-> SegmentsOf(MomentBlocks(m.body))]

\* _parse_highlights_for_video: "except Exception: return []"
ParseHighlightsForVideo(ht) ==
    LET r == ParseTry(ht)
    IN  IF r.raised THEN [raised |-> FALSE, segs |-> <<>>] ELSE r

\* ------------------------------------------------------- response texts
\* "text or None" values: None is a value that is not a string
None == [str |-> FALSE, toks |-> <<>>]
Text(toks) == [str |-> TRUE, toks |-> toks]
\* Python truthiness of an Optional[str]: not None and not ""
Truthy(v) == v.str /\ v.toks # <<>>

\* the timestamps written by the text-generation service
T10  == <<0, 0, 10>>
T20  == <<0, 0, 20>>
T120 == <<0, 2, 0>>
T150 == <<0, 2, 30>>
Times == {T10, T20, T120, T150}

\* ffmpeg's reading of -ss / -to hh:mm:ss
ToSecs(t) == t[1] * 3600 + t[2] * 60 + t[3]

\* A record of the numbered list of the prompt's output format
\* (src/extraction/process_video.py:116-128): its marker, Title, Start_Time,
\* End_Time and Why_Interesting lines; a line is present or left out.
RenderRecord(r) ==
    (IF r.num THEN <<Tok("num", NoT)>> ELSE <<>>)
        \o (IF r.title THEN <<Tok("title", NoT)>> ELSE <<>>)
        \o (IF r.start # NoT THEN <<Tok("start", r.start)>> ELSE <<>>)
        \o (IF r.end # NoT THEN <<Tok("end", r.end)>> ELSE <<>>)
        \o <<Tok("why", NoT)>>

RECURSIVE RenderRecords(_)
RenderRecords(rs) ==
    IF rs = <<>> THEN <<>> ELSE RenderRecord(Head(rs)) \o RenderRecords(Tail(rs))

\* the section of the response: label, blank line, fenced numbered list
Render(rs) ==
    <<Tok("label", NoT), Tok("ws", NoT), Tok("fence", NoT)>>
        \o RenderRecords(rs) \o <<Tok("fence", NoT)>>

\* A response that reproduces the OUTPUT FORMAT of the prompt: the prompt is
\* a string literal that is not raw, "\_" is no escape sequence and stays as
\* backslash and underscore, so the heading reads  #### Interesting\_Moments:
\* and is followed by a blank line, the fenced numbered list, and the
\* Suggested\_Cut\_Points: section with a fenced list of its own
RenderTemplate(rs) ==
    <<Tok("escaped", NoT), Tok("ws", NoT), Tok("fence", NoT)>>
        \o RenderRecords(rs)
        \o <<Tok("fence", NoT), Tok("ws", NoT), Tok("other", NoT),
             Tok("ws", NoT), Tok("fence", NoT), Tok("num", NoT),
             Tok("other", NoT), Tok("fence", NoT)>>

SeqsUpTo(S, n) == UNION {[1..m -> S] : m \in 0..n}

\* records as the parser may meet them: the marker, the title and the End_Time
\* line may be missing, and the Start_Time may be malformed.  The k-th record of
\* a response carries times of its own, later records earlier times.
StartOf(k) == <<0, 59 - k, 0>>
EndOf(k) == <<0, 59 - k, 30>>
RecordShapes ==
    [num : BOOLEAN, title : BOOLEAN, start : {"ok", "bad"},
     end : {"ok", "none"}]
RecordAt(shape, k) ==
    [num |-> shape.num, title |-> shape.title,
     start |-> IF shape.start = "ok" THEN StartOf(k) ELSE BadT,
     end |-> IF shape.end = "ok" THEN EndOf(k) ELSE NoT]
\* the records of the template: marker, Title, both times, Why_Interesting
TemplateRecords(n) ==
    [k \in 1..n |-> RecordAt([num |-> TRUE, title |-> TRUE, start |-> "ok",
                              end |-> "ok"], k)]
AnyRecordLists ==
    {[k \in DOMAIN shapes |-> RecordAt(shapes[k], k)] :
        shapes \in SeqsUpTo(RecordShapes, MaxRecords)}

\* records that follow the format: numbered, titled, both times well formed
GoodRecords ==
    [num : {TRUE}, title : {TRUE}, start : Times, end : Times]

WellFormed(r) ==
    r.num /\ r.title /\ ValidTime(r.start) /\ ValidTime(r.end)

\* the tokens of the arbitrary texts handed to the parser (numbered lists
\* are among the rendered responses)
ArbTokens ==
    {Tok("label", NoT), Tok("ws", NoT), Tok("fence", NoT),
     Tok("title", NoT), Tok("start", T10), Tok("end", T20)}

\* what get_highlights_from_transcript may return: None on a failed request,
\* else the stripped content of the reply, which may be empty, may lack the
\* section, or holds the section with up to MaxSegs records
NoSectionText == Text(<<Tok("title", NoT), Tok("start", T10), Tok("end", T20)>>)
LlmReplies ==
    {None, Text(<<>>), NoSectionText}
        \cup {Text(Render(rs)) : rs \in SeqsUpTo(GoodRecords, MaxSegs)}

\* ------------------------------------------------------------------ state
VARIABLES
    pc,               \* position of the run: "idle" between runs
    apiKey,           \* OPENROUTER_API_KEY is set (self.llm_client is not None)
    transcriptFile,   \* transcript_path.is_file()
    highlightsFile,   \* content of highlights_path, None when there is no file
    tempAudio,        \* temp_audio_path.exists()
    highlightVideo,   \* content of highlight_video_path: the manifest it was made from, <<>> when absent
    fullTranscript,   \* full_transcript_text is truthy
    highlightsText,   \* highlights_text
    timeSegments,     \* time_segments
    tempDir,          \* the TemporaryDirectory exists
    clipFiles,        \* clip_files
    cutIdx,           \* i of the enumerate loop
    asm,              \* how the last _create_highlight_video call stands
    cutLog,           \* ranges handed to the media tool for cutting, this run
    concatLog,        \* manifests handed to the media tool for concatenation, this run
    videoWrites,      \* writes to highlight_video_path, this run
    llmCalls,         \* calls of the text-generation service, this run
    parseCalls,       \* calls of _parse_highlights_for_video, this run
    failedAt,         \* index of the range whose cut failed this run, -1 when none
    transcriptFailed, \* this run found no transcript file and got no segments
    runResult,        \* how the last process_video call ended
    arg,              \* argument of a direct call of the parser
    recs,             \* the records arg was rendered from
    parsed,           \* what the direct call returned
    extractCalls,     \* calls of _extract_audio, this run
    transcribeCalls,  \* calls of _transcribe_audio, this run
    foundTranscript,  \* what transcript_path.is_file() gave this run
    foundHighlights,  \* what highlights_path.is_file() gave this run
    fault,            \* the collaborator failure this run met, "none" without one
    codec,            \* a direct call of format_timestamp or of an SRT writer
    gui,              \* the App window: its threads, buttons and event queue
    cache             \* the cache files of the output directory, by source video

vars == <<pc, apiKey, transcriptFile, highlightsFile, tempAudio, highlightVideo,
          fullTranscript, highlightsText, timeSegments, tempDir, clipFiles,
          cutIdx, asm, cutLog, concatLog, videoWrites, llmCalls, parseCalls,
          failedAt, transcriptFailed, runResult, arg, recs, parsed,
          extractCalls, transcribeCalls, foundTranscript, foundHighlights,
          fault, codec, gui, cache>>

files == <<transcriptFile, highlightsFile, highlightVideo>>
logs == <<cutLog, concatLog, videoWrites, llmCalls, parseCalls>>
assembler == <<tempDir, clipFiles, cutIdx, asm, failedAt>>
direct == <<arg, recs, parsed>>
history == <<extractCalls, transcribeCalls, foundTranscript, foundHighlights>>
side == <<codec, gui, cache>>
pipeline == <<pc, apiKey, files, tempAudio, fullTranscript, highlightsText,
              timeSegments, assembler, logs, transcriptFailed, runResult,
              history, fault>>

\* no direct call is under way, no window is open
CodecOff ==
    [pc |-> "off", op |-> "none", fn |-> "none", srt |-> FALSE, secs |-> 0,
     segs |-> <<>>, out |-> <<>>]
GuiOff == [pc |-> "off"]
CacheOff == [pc |-> "off"]

\* the window's threads by the attribute that holds each; the ones that
\* run the pipeline
ThreadKinds == {"download", "processing", "analysis", "creation"}
PipelineKinds == {"processing", "analysis", "creation"}

\* outcomes of subprocess.run(..., check=True): exit 0; CalledProcessError;
\* FileNotFoundError; another OSError (PermissionError, ...), which the
\* except clauses do not name
ToolOutcomes == {"ok", "nonzero", "missing", "oserror"}
Caught(o) == o \in {"nonzero", "missing"}

\* a collaborator failure: who failed ("tool", "speech", "llm") and how
Fault(who, kind) == [who |-> who, kind |-> kind]
NoFault == Fault("none", "none")
ToolFault(o, before) == IF o = "ok" THEN before ELSE Fault("tool", o)

\* outcomes of get_highlights_from_transcript: a reply text; a
\* RequestException (no connection; raise_for_status on a non-success
\* status); a body that is no JSON or lacks a key or a choice (ValueError,
\* KeyError, IndexError); a body whose "choices" or "content" is null
\* (TypeError, AttributeError), which the except clauses do not name
LlmFailures == {"network", "status", "shape", "null"}
LlmCaught(o) == o \in {"network", "status", "shape"}

\* state of a freshly constructed VideoProcessor over an empty output directory
InitPipeline ==
    /\ transcriptFile = FALSE
    /\ highlightsFile = None
    /\ tempAudio = FALSE
    /\ highlightVideo = <<>>
    /\ fullTranscript = FALSE
    /\ highlightsText = None
    /\ timeSegments = <<>>
    /\ tempDir = FALSE
    /\ clipFiles = <<>>
    /\ cutIdx = 0
    /\ asm = "none"
    /\ cutLog = <<>>
    /\ concatLog = <<>>
    /\ videoWrites = 0
    /\ llmCalls = 0
    /\ parseCalls = 0
    /\ failedAt = -1
    /\ transcriptFailed = FALSE
    /\ runResult = "none"
    /\ extractCalls = 0
    /\ transcribeCalls = 0
    /\ foundTranscript = FALSE
    /\ foundHighlights = FALSE
    /\ fault = NoFault

Init ==
    /\ InitPipeline
    /\ apiKey \in BOOLEAN
    /\ pc = "idle"
    /\ arg = None
    /\ recs = <<>>
    /\ parsed = [raised |-> FALSE, segs |-> <<>>]
    /\ codec = CodecOff
    /\ gui = GuiOff
    /\ cache = CacheOff

\* ---------------------------------------------------------- process_video
\* Step 1, the transcript_path.is_file() test
StartRun ==
    /\ pc = "idle"
    /\ fullTranscript' = transcriptFile
    /\ pc' = IF transcriptFile THEN "step2" ELSE "extract"
    /\ highlightsText' = None
    /\ timeSegments' = <<>>
    /\ clipFiles' = <<>>
    /\ cutIdx' = 0
    /\ asm' = "none"
    /\ failedAt' = -1
    /\ cutLog' = <<>>
    /\ concatLog' = <<>>
    /\ videoWrites' = 0
    /\ llmCalls' = 0
    /\ parseCalls' = 0
    /\ transcriptFailed' = FALSE
    /\ runResult' = "running"
    /\ extractCalls' = 0
    /\ transcribeCalls' = 0
    /\ foundTranscript' = transcriptFile
    /\ foundHighlights' = FALSE
    /\ fault' = NoFault
    /\ UNCHANGED <<apiKey, files, tempAudio, tempDir, direct, side>>

\* an exception leaves process_video: Step 4 is not reached. Without a
\* process_video run under way the assembler was called directly and the
\* exception reaches that caller
Raise ==
    IF runResult = "running"
    THEN pc' = "idle" /\ runResult' = "raised"
    ELSE pc' = "caller" /\ UNCHANGED runResult

\* where _create_highlight_video returns to: Step 4 of process_video, or the
\* caller of a direct call
AfterAssembler == IF runResult = "running" THEN "cleanup" ELSE "caller"

\* _extract_audio and the branch on its result
ExtractAudio ==
    /\ pc = "extract"
    /\ \E o \in ToolOutcomes, wrote \in BOOLEAN :
        /\ tempAudio' = IF o = "ok" THEN TRUE
                        ELSE IF o = "nonzero" THEN (tempAudio \/ wrote)
                        ELSE tempAudio
        /\ IF o = "ok"
           THEN pc' = "transcribe" /\ UNCHANGED <<runResult, transcriptFailed>>
           ELSE IF Caught(o)
           THEN pc' = "step2" /\ transcriptFailed' = TRUE /\ UNCHANGED runResult
           ELSE Raise /\ transcriptFailed' = TRUE
        /\ fault' = ToolFault(o, fault)
    /\ extractCalls' = extractCalls + 1
    /\ UNCHANGED <<apiKey, files, fullTranscript, highlightsText, timeSegments,
                   assembler, logs, direct, transcribeCalls, foundTranscript,
                   foundHighlights, side>>

\* _transcribe_audio, then _save_transcripts and _format_transcript_for_llm
\* when it returned segments
TranscribeAudio ==
    /\ pc = "transcribe"
    /\ \E o \in {"segments", "empty", "error"} :
        IF o = "segments"
        THEN /\ transcriptFile' = TRUE
             /\ fullTranscript' = TRUE
             /\ UNCHANGED transcriptFailed
             /\ UNCHANGED fault
        ELSE /\ transcriptFailed' = TRUE
             /\ fault' = IF o = "error" THEN Fault("speech", o) ELSE fault
             /\ UNCHANGED <<transcriptFile, fullTranscript>>
    /\ transcribeCalls' = transcribeCalls + 1
    /\ pc' = "step2"
    /\ UNCHANGED <<apiKey, highlightsFile, highlightVideo, tempAudio,
                   highlightsText, timeSegments, assembler, logs, runResult,
                   direct, extractCalls, foundTranscript, foundHighlights,
                   side>>

\* a slip: the cached highlights are read without the transcript test
ReadHighlightsUnguarded ==
    /\ pc = "step2"
    /\ highlightsFile # None
    /\ highlightsText' = highlightsFile
    /\ foundHighlights' = TRUE
    /\ pc' = "step3"
    /\ UNCHANGED <<apiKey, files, tempAudio, fullTranscript, timeSegments,
                   assembler, logs, transcriptFailed, runResult, direct,
                   extractCalls, transcribeCalls, foundTranscript, fault, side>>

\* Step 2 with a highlights file: read it
ReadHighlights ==
    /\ pc = "step2"
    /\ fullTranscript
    /\ highlightsFile # None
    /\ highlightsText' = highlightsFile
    /\ foundHighlights' = TRUE
    /\ pc' = "step3"
    /\ UNCHANGED <<apiKey, files, tempAudio, fullTranscript, timeSegments,
                   assembler, logs, transcriptFailed, runResult, direct,
                   extractCalls, transcribeCalls, foundTranscript, fault, side>>

\* a slip: the request is made whether or not there is a highlights file
HighlightsAbsentIgnored == TRUE

\* highlights_path.is_file() is false: the elif branch is tried
HighlightsAbsent == highlightsFile = None

\* Step 2 without one: _generate_and_save_highlights; the file is written
\* when the reply is truthy; a failure of the request is logged and gives
\* None, or leaves process_video when no except clause names it
GenerateAndSaveHighlights ==
    /\ pc = "step2"
    /\ fullTranscript
    /\ HighlightsAbsent
    /\ apiKey
    /\ \/ \E reply \in LlmReplies :
            /\ highlightsText' = IF Truthy(reply) THEN reply ELSE None
            /\ highlightsFile' = IF Truthy(reply) THEN reply ELSE highlightsFile
            /\ pc' = "step3"
            /\ UNCHANGED <<fault, runResult>>
       \/ \E o \in LlmFailures :
            /\ fault' = Fault("llm", o)
            /\ UNCHANGED <<highlightsText, highlightsFile>>
            /\ IF LlmCaught(o)
               THEN pc' = "step3" /\ UNCHANGED runResult
               ELSE Raise
    /\ llmCalls' = llmCalls + 1
    /\ foundHighlights' = (highlightsFile # None)
    /\ UNCHANGED <<apiKey, transcriptFile, highlightVideo, tempAudio,
                   fullTranscript, timeSegments, assembler, cutLog, concatLog,
                   videoWrites, parseCalls, transcriptFailed, direct,
                   extractCalls, transcribeCalls, foundTranscript, side>>

\* Step 2 skipped: no transcript text, or no API key
SkipHighlights ==
    /\ pc = "step2"
    /\ ~fullTranscript \/ (highlightsFile = None /\ ~apiKey)
    /\ pc' = "step3"
    /\ UNCHANGED <<apiKey, files, tempAudio, fullTranscript, highlightsText,
                   timeSegments, assembler, logs, transcriptFailed, runResult,
                   direct, history, fault, side>>

\* a slip: the assembler is called with whatever the parser returned
EntersAssemblerAlways(segs) == TRUE

\* "if time_segments:": the assembler is called for a non-empty list only
EntersAssembler(segs) == segs # <<>>

\* Step 3: _parse_highlights_for_video when highlights_text is truthy, and
\* the entry of _create_highlight_video (the TemporaryDirectory is made) when
\* it returned segments
ParseStep ==
    /\ pc = "step3"
    /\ IF Truthy(highlightsText)
       THEN LET segs == ParseHighlightsForVideo(highlightsText).segs
            IN  /\ timeSegments' = segs
                /\ parseCalls' = parseCalls + 1
                /\ IF EntersAssembler(segs)
                   THEN pc' = "cutting" /\ tempDir' = TRUE /\ asm' = "running"
                   ELSE pc' = "cleanup" /\ UNCHANGED <<tempDir, asm>>
       ELSE /\ pc' = "cleanup"
            /\ UNCHANGED <<timeSegments, parseCalls, tempDir, asm>>
    /\ UNCHANGED <<apiKey, files, tempAudio, fullTranscript, highlightsText,
                   clipFiles, cutIdx, failedAt, cutLog, concatLog, videoWrites,
                   llmCalls, transcriptFailed, runResult, direct, history, fault, side>>

\* ------------------------------------------------ _create_highlight_video
\* clip_filename = temp_path / f"clip_{i}.mp4", cut from (start, end)
Clip(idx, range) == [idx |-> idx, range |-> range]

\* a slip: the new clip is put in front of the list
PrependClip(clips, clip) == <<clip>> \o clips

\* clip_files.append(clip_filename)
AppendClip(clips, clip) == Append(clips, clip)

\* the range of the i-th iteration of enumerate(time_segments)
RangeAt(segs, idx) == segs[idx + 1]

\* a slip: a directory made with mkdtemp and never removed
ExitWithLeak == tempDir' = tempDir

\* leaving the with block deletes the directory and all it holds
ExitWith == tempDir' = FALSE

\* an iteration of the loop whose ffmpeg call exits 0
CutOk ==
    /\ pc = "cutting"
    /\ cutIdx < Len(timeSegments)
    /\ cutLog' = Append(cutLog, RangeAt(timeSegments, cutIdx))
    /\ clipFiles' = AppendClip(clipFiles, Clip(cutIdx, RangeAt(timeSegments, cutIdx)))
    /\ cutIdx' = cutIdx + 1
    /\ UNCHANGED <<pc, apiKey, files, tempAudio, fullTranscript, highlightsText,
                   timeSegments, tempDir, asm, failedAt, concatLog, videoWrites,
                   llmCalls, parseCalls, transcriptFailed, runResult, direct, history, fault, side>>

\* a slip: "continue" in the except clause, the failed range is skipped
CutFailedSkip ==
    /\ pc = "cutting"
    /\ cutIdx < Len(timeSegments)
    /\ cutLog' = Append(cutLog, timeSegments[cutIdx + 1])
    /\ failedAt' = cutIdx
    /\ cutIdx' = cutIdx + 1
    /\ UNCHANGED <<pc, apiKey, files, tempAudio, fullTranscript, highlightsText,
                   timeSegments, tempDir, clipFiles, asm, concatLog, videoWrites,
                   llmCalls, parseCalls, transcriptFailed, runResult, direct, history, fault, side>>

\* a slip: "break" in the except clause, the clips made so far are stitched
CutFailedBreak ==
    /\ pc = "cutting"
    /\ cutIdx < Len(timeSegments)
    /\ cutLog' = Append(cutLog, timeSegments[cutIdx + 1])
    /\ failedAt' = cutIdx
    /\ asm' = "failed"
    /\ cutIdx' = Len(timeSegments)
    /\ IF clipFiles = <<>>
       THEN tempDir' = FALSE /\ pc' = "cleanup"
       ELSE UNCHANGED <<tempDir, pc>>
    /\ UNCHANGED <<apiKey, files, tempAudio, fullTranscript, highlightsText,
                   timeSegments, clipFiles, concatLog, videoWrites, llmCalls,
                   parseCalls, transcriptFailed, runResult, direct, history, fault, side>>

\* an iteration whose ffmpeg call raises CalledProcessError or
\* FileNotFoundError: log and return
CutFailed ==
    /\ pc = "cutting"
    /\ cutIdx < Len(timeSegments)
    /\ \E o \in {"nonzero", "missing"} :
        /\ cutLog' = Append(cutLog, RangeAt(timeSegments, cutIdx))
        /\ fault' = ToolFault(o, fault)
    /\ failedAt' = cutIdx
    /\ asm' = "failed"
    /\ ExitWith
    /\ pc' = AfterAssembler
    /\ UNCHANGED <<apiKey, files, tempAudio, fullTranscript, highlightsText,
                   timeSegments, clipFiles, cutIdx, concatLog, videoWrites,
                   llmCalls, parseCalls, transcriptFailed, runResult, direct,
                   history, side>>

\* an iteration whose ffmpeg call raises an OSError the except clause does
\* not name: it leaves the with block and process_video
CutRaised ==
    /\ pc = "cutting"
    /\ cutIdx < Len(timeSegments)
    /\ cutLog' = Append(cutLog, RangeAt(timeSegments, cutIdx))
    /\ failedAt' = cutIdx
    /\ asm' = "raised"
    /\ fault' = ToolFault("oserror", fault)
    /\ ExitWith
    /\ Raise
    /\ UNCHANGED <<apiKey, files, tempAudio, fullTranscript, highlightsText,
                   timeSegments, clipFiles, cutIdx, concatLog, videoWrites,
                   llmCalls, parseCalls, transcriptFailed, direct, history,
                   side>>

\* concat_list.txt: one line per clip of clip_files, in list order
Manifest(clips) == clips

\* a slip: the "if not clip_files" test is left out
HasClipsAlways(clips) == TRUE

\* "if not clip_files: ... return" does not return
HasClips(clips) == clips # <<>>

\* the loop is over with clips made (the "no clips" test passes): the
\* manifest is written and the concat command run
Concat ==
    /\ pc = "cutting"
    /\ cutIdx = Len(timeSegments)
    /\ HasClips(clipFiles)
    /\ concatLog' = Append(concatLog, Manifest(clipFiles))
    /\ \E o \in ToolOutcomes :
        /\ IF o = "ok"
           THEN /\ highlightVideo' = Manifest(clipFiles)
                /\ videoWrites' = videoWrites + 1
                /\ asm' = "done"
           ELSE /\ asm' = IF Caught(o) THEN "failed" ELSE "raised"
                /\ UNCHANGED <<highlightVideo, videoWrites>>
        /\ IF o = "oserror"
           THEN Raise
           ELSE pc' = AfterAssembler /\ UNCHANGED runResult
        /\ fault' = ToolFault(o, fault)
    /\ ExitWith
    /\ UNCHANGED <<apiKey, transcriptFile, highlightsFile, tempAudio,
                   fullTranscript, highlightsText, timeSegments, clipFiles,
                   cutIdx, failedAt, cutLog, llmCalls, parseCalls,
                   transcriptFailed, direct, history, side>>

\* the loop is over with no clip made: the error is logged and the call
\* returns, the media tool was not run
NoClips ==
    /\ pc = "cutting"
    /\ cutIdx = Len(timeSegments)
    /\ ~HasClips(clipFiles)
    /\ asm' = "failed"
    /\ ExitWith
    /\ pc' = AfterAssembler
    /\ UNCHANGED <<apiKey, files, tempAudio, fullTranscript, highlightsText,
                   timeSegments, clipFiles, cutIdx, failedAt, logs,
                   transcriptFailed, runResult, direct, history, fault, side>>

\* Step 4: _cleanup, and process_video returns; an unlink that fails with
\* an OSError is logged and the file stays
Cleanup ==
    /\ pc = "cleanup"
    /\ \E unlinked \in BOOLEAN : tempAudio' = (tempAudio /\ ~unlinked)
    /\ pc' = "idle"
    /\ runResult' = "returned"
    /\ UNCHANGED <<apiKey, files, fullTranscript, highlightsText, timeSegments,
                   assembler, logs, transcriptFailed, direct, history, fault, side>>

\* between runs the user may delete the transcript from the output directory
RemoveTranscriptFile ==
    /\ pc = "idle"
    /\ transcriptFile
    /\ transcriptFile' = FALSE
    /\ UNCHANGED <<pc, apiKey, highlightsFile, highlightVideo, tempAudio,
                   fullTranscript, highlightsText, timeSegments, assembler,
                   logs, transcriptFailed, runResult, direct, history, fault, side>>

Next ==
    \/ StartRun
    \/ ExtractAudio
    \/ TranscribeAudio
    \/ ReadHighlights
    \/ GenerateAndSaveHighlights
    \/ SkipHighlights
    \/ ParseStep
    \/ CutOk
    \/ CutFailed
    \/ CutRaised
    \/ Concat
    \/ Cleanup
    \/ RemoveTranscriptFile

Spec == Init /\ [][Next]_vars

\* ------------------------------------------- collaborators that never answer
\* subprocess.run(...) is called without timeout=: when ffmpeg never exits
\* (extraction, a cut, the concat) the call never returns
ToolHangs ==
    /\ pc \in {"extract", "cutting"}
    /\ pc' = "blocked"
    /\ fault' = Fault("tool", "hang")
    /\ UNCHANGED <<apiKey, files, tempAudio, fullTranscript, highlightsText,
                   timeSegments, assembler, logs, transcriptFailed, runResult,
                   direct, history, side>>

\* requests.post(...) is called without timeout=: when the service never
\* answers the call never returns
LlmHangs ==
    /\ pc = "step2"
    /\ fullTranscript
    /\ HighlightsAbsent
    /\ apiKey
    /\ pc' = "blocked"
    /\ llmCalls' = llmCalls + 1
    /\ fault' = Fault("llm", "hang")
    /\ UNCHANGED <<apiKey, files, tempAudio, fullTranscript, highlightsText,
                   timeSegments, assembler, cutLog, concatLog, videoWrites,
                   parseCalls, transcriptFailed, runResult, direct, history,
                   side>>

NextLive ==
    \/ Next
    \/ ToolHangs
    \/ LlmHangs

\* every step that can be taken is taken in the end: a call that returns
\* does return, the process goes on
SpecLive == Init /\ [][NextLive]_vars /\ WF_vars(NextLive)

\* ------------------------------------ the assembler, by either of its callers
\* the ranges of a direct call
DirectPairs == {<<T10, T20>>, <<T120, T150>>}

\* _create_highlight_video(segs) called on a VideoProcessor outside
\* process_video, with any list, the empty one too: "with
\* tempfile.TemporaryDirectory()" and "clip_files = []"
CallAssembler ==
    /\ pc = "caller"
    /\ \E segs \in SeqsUpTo(DirectPairs, MaxSegs) : timeSegments' = segs
    /\ clipFiles' = <<>>
    /\ cutIdx' = 0
    /\ failedAt' = -1
    /\ asm' = "running"
    /\ tempDir' = TRUE
    /\ cutLog' = <<>>
    /\ concatLog' = <<>>
    /\ videoWrites' = 0
    /\ fault' = NoFault
    /\ pc' = "cutting"
    /\ UNCHANGED <<apiKey, files, tempAudio, fullTranscript, highlightsText,
                   llmCalls, parseCalls, transcriptFailed, runResult, direct,
                   history, side>>

\* a VideoProcessor whose process_video is not run
InitAssembler ==
    /\ InitPipeline
    /\ apiKey = FALSE
    /\ pc = "caller"
    /\ arg = None
    /\ recs = <<>>
    /\ parsed = [raised |-> FALSE, segs |-> <<>>]
    /\ codec = CodecOff
    /\ gui = GuiOff
    /\ cache = CacheOff

NextAssembler ==
    \/ Next
    \/ CallAssembler
    \/ NoClips

\* the assembler as process_video reaches it and as a direct call does
SpecAssembler == (Init \/ InitAssembler) /\ [][NextAssembler]_vars

\* ------------------------------------------- the parser, called directly
\* the argument is a value that is no string, an arbitrary token text, or a
\* response rendered from records
InitParse ==
    /\ InitPipeline
    /\ apiKey = FALSE
    /\ pc = "call"
    /\ parsed = [raised |-> FALSE, segs |-> <<>>]
    /\ codec = CodecOff
    /\ gui = GuiOff
    /\ cache = CacheOff
    /\ \/ arg = None /\ recs = <<>>
       \/ \E t \in SeqsUpTo(ArbTokens, MaxTextLen) :
            arg = Text(t) /\ recs = <<>>
       \/ \E rs \in AnyRecordLists :
            arg = Text(Render(rs)) /\ recs = rs
       \/ \E n \in 1..MaxRecords :
            arg = Text(RenderTemplate(TemplateRecords(n)))
                /\ recs = TemplateRecords(n)

\* _parse_highlights_for_video(arg)
ParseCall ==
    /\ pc = "call"
    /\ parsed' = ParseHighlightsForVideo(arg)
    /\ pc' = IF ParseHighlightsForVideo(arg).raised THEN "raised" ELSE "returned"
    /\ UNCHANGED <<apiKey, files, tempAudio, fullTranscript, highlightsText,
                   timeSegments, assembler, logs, transcriptFailed, runResult,
                   arg, recs, history, fault, side>>

NextParse == ParseCall

SpecParse == InitParse /\ [][NextParse]_vars

\* ------------------------------------------------------- format_timestamp
\* a time is a whole number of 1/SubMs milliseconds; a string is a sequence
\* of one-character strings
SubMs == 4
UnitsPerSec == 1000 * SubMs

DigitChars == <<"0", "1", "2", "3", "4", "5", "6", "7", "8", "9">>

\* str(n) for n >= 0
RECURSIVE Digits(_)
Digits(n) ==
    IF n < 10 THEN <<DigitChars[n + 1]>>
    ELSE Digits(n \div 10) \o <<DigitChars[(n % 10) + 1]>>

RECURSIVE ZeroFill(_, _)
ZeroFill(ds, w) == IF Len(ds) >= w THEN ds ELSE ZeroFill(<<"0">> \o ds, w)

\* f"{n:0wd}": zero-filled to width w, the sign counted in the width
Pad(n, w) ==
    IF n < 0 THEN <<"-">> \o ZeroFill(Digits(-n), w - 1)
    ELSE ZeroFill(Digits(n), w)

\* round(seconds * 1000.0): to the nearest whole number, a tie to the even one
RoundHalfEven(u) ==
    LET q == u \div SubMs
        r == u % SubMs
    IN  IF 2 * r < SubMs THEN q
        ELSE IF 2 * r > SubMs THEN q + 1
        ELSE IF q % 2 = 0 THEN q ELSE q + 1

\* int(x): towards zero
TruncToInt(u, d) == IF u >= 0 THEN u \div d ELSE -((-u) \div d)

Raised == [raised |-> TRUE, str |-> <<>>]
Returned(str) == [raised |-> FALSE, str |-> str]

\* a slip: the whole seconds are split off first and the fraction is rounded
\* afterwards
FormatRoundedLate(u, srt) ==
    IF u < 0 THEN Raised
    ELSE LET secs    == u \div UnitsPerSec
             millis  == RoundHalfEven(u % UnitsPerSec)
             hours   == secs \div 3600
             minutes == (secs % 3600) \div 60
             seconds == secs % 60
             hms     == Pad(hours, 2) \o <<":">> \o Pad(minutes, 2) \o <<":">>
                        \o Pad(seconds, 2)
         IN  Returned(IF srt THEN hms \o <<",">> \o Pad(millis, 3) ELSE hms)

\* format_timestamp(seconds, srt_format) of utils.py, audio_highlighter/utils.py
\* and extraction/process_video.py: assert, round, divmod
FormatRounded(u, srt) ==
    IF u < 0 THEN Raised
    ELSE LET ms      == RoundHalfEven(u)
             hours   == ms \div 3600000
             ms1     == ms % 3600000
             minutes == ms1 \div 60000
             ms2     == ms1 % 60000
             seconds == ms2 \div 1000
             millis  == ms2 % 1000
             hms     == Pad(hours, 2) \o <<":">> \o Pad(minutes, 2) \o <<":">>
                        \o Pad(seconds, 2)
         IN  Returned(IF srt THEN hms \o <<",">> \o Pad(millis, 3) ELSE hms)

\* format_timestamp(seconds) of extraction/main.py: no assert, the fraction
\* cut to whole milliseconds by int(), one style only
FormatTruncated(u) ==
    LET ms       == (u % UnitsPerSec) \div SubMs
        secs     == TruncToInt(u, UnitsPerSec)
        minutes0 == secs \div 60
        seconds  == secs % 60
        hours    == minutes0 \div 60
        minutes  == minutes0 % 60
    IN  Returned(Pad(hours, 2) \o <<":">> \o Pad(minutes, 2) \o <<":">>
                 \o Pad(seconds, 2) \o <<",">> \o Pad(ms, 3))

\* the modules that define a format_timestamp
FormatFns == {"utils", "extraction.main"}
FormatTimestamp(fn, u, srt) ==
    IF fn = "extraction.main" THEN FormatTruncated(u) ELSE FormatRounded(u, srt)

\* ------------------------------------------------------------ SRT writers
IsSpace(c) == c \in {" ", "\n"}

RECURSIVE LStrip(_)
LStrip(cs) == IF cs # <<>> /\ IsSpace(Head(cs)) THEN LStrip(Tail(cs)) ELSE cs

RECURSIVE RStrip(_)
RStrip(cs) ==
    IF cs # <<>> /\ IsSpace(cs[Len(cs)])
    THEN RStrip(SubSeq(cs, 1, Len(cs) - 1))
    ELSE cs

\* str.strip()
Strip(cs) == RStrip(LStrip(cs))

Arrow == <<" ", "-", "-", ">", " ">>

\* the functions that write numbered cues, and the format_timestamp each calls
SrtWriters ==
    {"_save_transcripts", "export_transcript_to_srt", "save_transcript_to_srt"}
FnOfWriter(w) ==
    IF w = "save_transcript_to_srt" THEN "extraction.main" ELSE "utils"

\* a slip: the cue is numbered with the loop index itself
CueNumberFromZero(i) == Digits(i)

\* f"{i + 1}"
CueNumber(i) == Digits(i + 1)

\* the three writes of one iteration of the loop over enumerate(segments)
Cue(w, seg, i) ==
    CueNumber(i) \o <<"\n">>
    \o FormatTimestamp(FnOfWriter(w), seg.start, TRUE).str \o Arrow
    \o FormatTimestamp(FnOfWriter(w), seg.end, TRUE).str \o <<"\n">>
    \o Strip(seg.text) \o <<"\n", "\n">>

\* what the file holds when the loop has run from index i on
RECURSIVE WriteCues(_, _, _)
WriteCues(w, segs, i) ==
    IF i >= Len(segs) THEN <<>>
    ELSE Cue(w, segs[i + 1], i) \o WriteCues(w, segs, i + 1)

\* ------------------------------------------- the formatters, called directly
MaxCues == 2
MaxUnits == 359999999 * SubMs

\* seconds across the range: hour, minute, second and millisecond fields at
\* their ends and in between, each with every sub-millisecond remainder
FormatSecs ==
    {u \in {((hh * 60 + mm) * 60 + ss) * UnitsPerSec + ms * SubMs + q :
              hh \in {0, 1, 99}, mm \in {0, 59}, ss \in {0, 4, 59},
              ms \in {0, 62, 350, 999}, q \in 0..(SubMs - 1)} : u <= MaxUnits}
NegativeSecs ==
    {-1, -(250 * SubMs), -(UnitsPerSec + 500 * SubMs), -(3600 * UnitsPerSec)}

\* segments as the transcription gives them: 0 <= start <= end, a text with
\* or without blanks around it
SegTimes ==
    {<<0, 4350 * SubMs>>,
     <<4350 * SubMs + 1, 61000 * SubMs + 2>>,
     <<3600 * UnitsPerSec, 3600 * UnitsPerSec + 999 * SubMs>>}
SegTexts ==
    {<<"a">>, <<" ", "a", " ", "b", "\n">>, <<" ">>, <<"a", "\n", "b">>}
Segments == {[start |-> t[1], end |-> t[2], text |-> x] :
               t \in SegTimes, x \in SegTexts}

InitCodec ==
    /\ InitPipeline
    /\ apiKey = FALSE
    /\ pc = "direct"
    /\ arg = None
    /\ recs = <<>>
    /\ parsed = [raised |-> FALSE, segs |-> <<>>]
    /\ gui = GuiOff
    /\ cache = CacheOff
    /\ \/ \E fn \in FormatFns, u \in FormatSecs \cup NegativeSecs,
            srt \in BOOLEAN :
            /\ fn = "extraction.main" => srt
            /\ codec = [pc |-> "call", op |-> "format", fn |-> fn,
                        srt |-> srt, secs |-> u, segs |-> <<>>, out |-> <<>>]
       \/ \E w \in SrtWriters, segs \in SeqsUpTo(Segments, MaxCues) :
            codec = [pc |-> "call", op |-> "srt", fn |-> w, srt |-> TRUE,
                     secs |-> 0, segs |-> segs, out |-> <<>>]

\* format_timestamp(secs, srt_format=srt)
FormatCall ==
    /\ codec.pc = "call"
    /\ codec.op = "format"
    /\ LET r == FormatTimestamp(codec.fn, codec.secs, codec.srt)
       IN  codec' = [codec EXCEPT
                       !.pc = IF r.raised THEN "raised" ELSE "returned",
                       !.out = r.str]
    /\ UNCHANGED <<pipeline, direct, gui, cache>>

\* one of the SRT writers on segs: the file it leaves
SrtCall ==
    /\ codec.pc = "call"
    /\ codec.op = "srt"
    /\ codec' = [codec EXCEPT !.pc = "returned",
                              !.out = WriteCues(codec.fn, codec.segs, 0)]
    /\ UNCHANGED <<pipeline, direct, gui, cache>>

NextCodec ==
    \/ FormatCall
    \/ SrtCall

SpecCodec == InitCodec /\ [][NextCodec]_vars

\* ------------------------------------------------------------ the App window
\* gui.app tells the two windows apart: "gui.py" has one processing thread
\* that runs process_video, "main.py" an analysis thread, the highlight
\* editor and a creation thread. A thread is "running" while its target works
\* and "exiting" from the moment the target has queued its callback with
\* self.after(0, ...) until the thread is gone; is_alive() holds in both.
GuiApps == {"gui.py", "main.py"}

\* callbacks that may wait in the event queue at a time
MaxQueue == 2

\* App.__init__: no thread, only the process button disabled; in main.py
\* check_dependencies disables every control when FFmpeg is missing
GuiInit(app, ready) ==
    [pc |-> "open", app |-> app,
     dlBtn |-> ready, selBtn |-> ready, procBtn |-> FALSE,
     videoPath |-> FALSE, processor |-> FALSE, editor |-> FALSE,
     threads |-> {}, ref |-> [k \in ThreadKinds |-> 0], queue |-> <<>>,
     overlap |-> FALSE, ownOverlap |-> FALSE, refused |-> FALSE,
     ranOn |-> {}]

\* a slip: the test is left out, a thread is started on every request
NeverAlive(g, kind) == FALSE

\* self.<kind>_thread and self.<kind>_thread.is_alive()
Alive(g, kind) == \E t \in g.threads : t.id = g.ref[kind]

FreeId(g) ==
    Min({i \in 1..(Cardinality(g.threads) + 1) :
           \A t \in g.threads : t.id # i})

\* self.<kind>_thread = threading.Thread(...); .start(). overlap and
\* ownOverlap remember a pipeline thread started while another pipeline
\* thread, or one of its own kind, was alive
StartThread(g, kind) ==
    [g EXCEPT
       !.threads = @ \cup {[id |-> FreeId(g), kind |-> kind, st |-> "running"]},
       !.ref = [@ EXCEPT ![kind] = FreeId(g)],
       !.overlap = @ \/ (kind \in PipelineKinds
                         /\ \E t \in g.threads : t.kind \in PipelineKinds),
       !.ownOverlap = @ \/ (kind \in PipelineKinds
                            /\ \E t \in g.threads : t.kind = kind)]

\* set_ui_state(is_enabled) of main.py
SetUiState(g, on) ==
    [g EXCEPT !.dlBtn = on, !.selBtn = on, !.procBtn = on /\ g.videoPath]

\* start_download_thread
StartDownloadThread(g, urlGiven) ==
    IF Alive(g, "download") \/ (g.app = "main.py" /\ Alive(g, "analysis"))
    THEN g
    ELSE IF ~urlGiven THEN g
    ELSE StartThread(
            IF g.app = "main.py" THEN SetUiState(g, FALSE)
            ELSE [g EXCEPT !.procBtn = FALSE, !.dlBtn = FALSE, !.selBtn = FALSE],
            "download")

\* start_processing_thread of gui.py
StartProcessingThread(g) ==
    IF Alive(g, "processing") THEN [g EXCEPT !.refused = TRUE]
    ELSE StartThread([g EXCEPT !.procBtn = FALSE, !.selBtn = FALSE],
                     "processing")

\* start_analysis_thread of main.py
StartAnalysisThread(g) ==
    IF Alive(g, "analysis") THEN [g EXCEPT !.refused = TRUE]
    ELSE StartThread(SetUiState(g, FALSE), "analysis")

\* start_creation_thread of main.py
StartCreationThread(g) ==
    IF Alive(g, "creation") THEN [g EXCEPT !.refused = TRUE]
    ELSE StartThread(g, "creation")

\* a callback queued with self.after(0, ...)
Callback(cb, ok) == [cb |-> cb, ok |-> ok]

\* on_download_finished(downloaded_path)
OnDownloadFinished(g, ok) ==
    IF g.app = "main.py"
    THEN SetUiState([g EXCEPT !.videoPath = @ \/ ok], TRUE)
    ELSE [g EXCEPT !.videoPath = @ \/ ok, !.procBtn = @ \/ ok,
                   !.dlBtn = TRUE, !.selBtn = TRUE]

\* on_processing_finished of gui.py
OnProcessingFinished(g) == [g EXCEPT !.procBtn = TRUE, !.selBtn = TRUE]

\* on_analysis_finished(highlights_data, transcript_segments): the editor
\* opens, or the controls are given back
OnAnalysisFinished(g, ok) ==
    IF ok /\ g.processor THEN [g EXCEPT !.editor = TRUE]
    ELSE SetUiState(g, TRUE)

\* on_creation_finished
OnCreationFinished(g) == SetUiState(g, TRUE)

RunHandler(g, c) ==
    IF c.cb = "download" THEN OnDownloadFinished(g, c.ok)
    ELSE IF c.cb = "processing" THEN OnProcessingFinished(g)
    ELSE IF c.cb = "analysis" THEN OnAnalysisFinished(g, c.ok)
    ELSE OnCreationFinished(g)

\* the Download Video button
ClickDownload ==
    /\ gui.pc = "open"
    /\ gui.dlBtn
    /\ \E urlGiven \in BOOLEAN : gui' = StartDownloadThread(gui, urlGiven)
    /\ UNCHANGED <<pipeline, direct, codec, cache>>

\* the Select Local Video button: select_video_file, a file chosen or not
SelectVideoFile ==
    /\ gui.pc = "open"
    /\ gui.selBtn
    /\ \E chosen \in BOOLEAN :
        gui' = IF chosen
               THEN [gui EXCEPT !.videoPath = TRUE, !.procBtn = TRUE]
               ELSE gui
    /\ UNCHANGED <<pipeline, direct, codec, cache>>

\* the Process Video (gui.py) or Analyze Video (main.py) button
ClickProcess ==
    /\ gui.pc = "open"
    /\ gui.procBtn
    /\ gui' = IF gui.app = "main.py" THEN StartAnalysisThread(gui)
              ELSE StartProcessingThread(gui)
    /\ UNCHANGED <<pipeline, direct, codec, cache>>

\* the target of a thread of the kind does its work and queues its callback:
\* run_youtube_downloader, run_video_processor, run_analysis,
\* run_video_creation
TargetReturns(kind) ==
    /\ gui.pc = "open"
    /\ Len(gui.queue) < MaxQueue
    /\ \E t \in gui.threads, ok \in BOOLEAN, built \in BOOLEAN :
        /\ t.kind = kind
        /\ t.st = "running"
        /\ gui' = [gui EXCEPT
             !.threads = (@ \ {t}) \cup {[t EXCEPT !.st = "exiting"]},
             !.ranOn = IF t.kind \in PipelineKinds THEN @ \cup {"worker"} ELSE @,
             !.processor = @ \/ (t.kind = "analysis" /\ gui.videoPath /\ built),
             !.queue =
                IF t.kind = "download" THEN Append(@, Callback("download", ok))
                ELSE IF t.kind = "processing"
                THEN (IF gui.videoPath THEN Append(@, Callback("processing", TRUE))
                      ELSE @)
                ELSE IF t.kind = "analysis"
                THEN Append(@, Callback("analysis", gui.videoPath /\ built /\ ok))
                ELSE Append(@, Callback("creation", TRUE))]
    /\ UNCHANGED <<pipeline, direct, codec, cache>>

WorkerDone == \E kind \in ThreadKinds : TargetReturns(kind)

\* the target has returned: the thread is no longer alive
ThreadExits ==
    /\ gui.pc = "open"
    /\ \E t \in gui.threads :
        /\ t.st = "exiting"
        /\ gui' = [gui EXCEPT
             !.threads = @ \ {t},
             !.ref = [k \in ThreadKinds |-> IF @[k] = t.id THEN 0 ELSE @[k]]]
    /\ UNCHANGED <<pipeline, direct, codec, cache>>

\* the event loop runs the oldest queued callback
RunCallback ==
    /\ gui.pc = "open"
    /\ gui.queue # <<>>
    /\ gui' = RunHandler([gui EXCEPT !.queue = Tail(@)], Head(gui.queue))
    /\ UNCHANGED <<pipeline, direct, codec, cache>>

\* create_video_action of the editor: with no highlight selected the window
\* is destroyed; otherwise start_creation_callback, then destroy
EditorCreateVideo ==
    /\ gui.pc = "open"
    /\ gui.editor
    /\ \E selected \in BOOLEAN :
        gui' = IF selected
               THEN [StartCreationThread(gui) EXCEPT !.editor = FALSE]
               ELSE [gui EXCEPT !.editor = FALSE]
    /\ UNCHANGED <<pipeline, direct, codec, cache>>

\* the editor is closed with the window's close button
EditorCloseWindow ==
    /\ gui.pc = "open"
    /\ gui.editor
    /\ gui' = [gui EXCEPT !.editor = FALSE]
    /\ UNCHANGED <<pipeline, direct, codec, cache>>

InitGui ==
    /\ InitPipeline
    /\ apiKey = TRUE
    /\ pc = "gui"
    /\ arg = None
    /\ recs = <<>>
    /\ parsed = [raised |-> FALSE, segs |-> <<>>]
    /\ codec = CodecOff
    /\ cache = CacheOff
    /\ \E app \in GuiApps, ready \in BOOLEAN :
        /\ app = "gui.py" => ready
        /\ gui = GuiInit(app, ready)

NextGui ==
    \/ ClickDownload
    \/ SelectVideoFile
    \/ ClickProcess
    \/ WorkerDone
    \/ ThreadExits
    \/ RunCallback
    \/ EditorCreateVideo
    \/ EditorCloseWindow

SpecGui == InitGui /\ [][NextGui]_vars

\* the target of every worker returns, its thread ends, the event loop runs
\* what is queued, and the user does not leave the editor open for ever
SpecGuiLive ==
    /\ InitGui
    /\ [][NextGui]_vars
    /\ \A kind \in ThreadKinds : SF_vars(TargetReturns(kind))
    /\ WF_vars(ThreadExits)
    /\ WF_vars(RunCallback)
    /\ WF_vars(EditorCreateVideo \/ EditorCloseWindow)

\* ------------------------------------------------- the cache files, by video
\* source videos as the window hands them to VideoProcessor: two of them
\* share the stem and differ in directory and extension
Videos == {"a/talk.mp4", "b/talk.mkv", "a/demo.mp4"}
NoVideo == "none"

\* Path(video_path).stem
Stem(v) == IF v \in {"a/talk.mp4", "b/talk.mkv"} THEN "talk" ELSE "demo"
Stems == {Stem(v) : v \in Videos}

\* an empty output directory. transcriptOf[s] is the video that
\* <s>_transcript.txt was transcribed from, highlightsOf[s] the video whose
\* transcript <s>_highlights.txt was generated from; usedTranscript and
\* usedHighlights are the same for the texts the run under way works with
CacheInit ==
    [pc |-> "idle", video |-> NoVideo,
     transcriptOf |-> [st \in Stems |-> NoVideo],
     highlightsOf |-> [st \in Stems |-> NoVideo],
     usedTranscript |-> NoVideo, usedHighlights |-> NoVideo]

\* VideoProcessor(video_path=v, output_dir=Path("output"), ...): the cache
\* paths are output_dir / f"{video_stem}<suffix>"; process_video is entered
NewVideoProcessor ==
    /\ cache.pc = "idle"
    /\ \E v \in Videos :
        cache' = [cache EXCEPT !.pc = "step1", !.video = v,
                               !.usedTranscript = NoVideo,
                               !.usedHighlights = NoVideo]
    /\ UNCHANGED <<pipeline, direct, codec, gui>>

\* Step 1: the transcript file of the stem is read when it is there; else
\* the video is transcribed and, when that gave segments, the file written
CacheStep1 ==
    /\ cache.pc = "step1"
    /\ LET st == Stem(cache.video)
       IN  IF cache.transcriptOf[st] # NoVideo
           THEN cache' = [cache EXCEPT !.pc = "step2",
                                       !.usedTranscript = cache.transcriptOf[st]]
           ELSE \E segments \in BOOLEAN :
                   cache' = IF segments
                            THEN [cache EXCEPT !.pc = "step2",
                                               !.transcriptOf[st] = cache.video,
                                               !.usedTranscript = cache.video]
                            ELSE [cache EXCEPT !.pc = "step2"]
    /\ UNCHANGED <<pipeline, direct, codec, gui>>

\* Step 2: with a transcript text, the highlights file of the stem is read
\* when it is there; else the service is asked about the text and a truthy
\* reply is written
CacheStep2 ==
    /\ cache.pc = "step2"
    /\ LET st == Stem(cache.video)
       IN  IF cache.usedTranscript = NoVideo
           THEN cache' = [cache EXCEPT !.pc = "step3"]
           ELSE IF cache.highlightsOf[st] # NoVideo
           THEN cache' = [cache EXCEPT !.pc = "step3",
                                       !.usedHighlights = cache.highlightsOf[st]]
           ELSE \E reply \in BOOLEAN :
                   cache' = IF reply /\ apiKey
                            THEN [cache EXCEPT
                                    !.pc = "step3",
                                    !.highlightsOf[st] = cache.usedTranscript,
                                    !.usedHighlights = cache.usedTranscript]
                            ELSE [cache EXCEPT !.pc = "step3"]
    /\ UNCHANGED <<pipeline, direct, codec, gui>>

\* Steps 3 and 4 leave the cache files alone; process_video returns
CacheStep3 ==
    /\ cache.pc = "step3"
    /\ cache' = [cache EXCEPT !.pc = "idle"]
    /\ UNCHANGED <<pipeline, direct, codec, gui>>

InitCache ==
    /\ InitPipeline
    /\ apiKey \in BOOLEAN
    /\ pc = "cache"
    /\ arg = None
    /\ recs = <<>>
    /\ parsed = [raised |-> FALSE, segs |-> <<>>]
    /\ codec = CodecOff
    /\ gui = GuiOff
    /\ cache = CacheInit

NextCache ==
    \/ NewVideoProcessor
    \/ CacheStep1
    \/ CacheStep2
    \/ CacheStep3

SpecCache == InitCache /\ [][NextCache]_vars

\* ================================================================ claims
\* ---------------------------------------------------------------------
\* C1: when the media tool fails while cutting range i, the run aborts at
\* once: the failed cut is the last cut of the run (no range after i is
\* handed to the tool) and the concatenation is not invoked in that run.
C1_AbortOnCutFailure ==
    failedAt # -1 =>
        /\ Len(cutLog) = failedAt + 1
        /\ cutLog[failedAt + 1] = timeSegments[failedAt + 1]
        /\ concatLog = <<>>

\* the first of two ranges failed with a caught error and the run is over
C1_Witness ==
    /\ failedAt = 0
    /\ Len(timeSegments) = 2
    /\ asm = "failed"
    /\ runResult = "returned"
    /\ pc = "idle"

\* ---------------------------------------------------------------------
\* C2: whenever no assembly run is in progress (it has returned by any path:
\* success, a failed cut, a failed concatenation, an error raised inside)
\* the temporary directory does not exist.
C2_TempDirRemoved ==
    /\ asm # "running" => ~tempDir
    /\ pc # "cutting" => ~tempDir

\* clips were made, the concatenation raised an error that is not caught
C2_Witness ==
    /\ asm = "raised"
    /\ Len(concatLog) = 1
    /\ Len(clipFiles) = 2
    /\ ~tempDir
    /\ runResult = "raised"

\* ---------------------------------------------------------------------
\* C3: the k-th cut is of range k of the list, clip k (clip_{k-1}.mp4) is
\* made from range k, and a manifest handed to the concatenation lists
\* exactly the clips of ranges 1..n in list order.
C3_OrderPreserved ==
    /\ Len(cutLog) <= Len(timeSegments)
    /\ \A k \in 1..Len(cutLog) : cutLog[k] = timeSegments[k]
    /\ Len(clipFiles) <= Len(cutLog)
    /\ \A k \in 1..Len(clipFiles) : clipFiles[k] = Clip(k - 1, timeSegments[k])
    /\ \A m \in 1..Len(concatLog) :
        concatLog[m] = [k \in 1..Len(timeSegments) |-> Clip(k - 1, timeSegments[k])]

\* two different ranges, later one first in time, were cut and stitched
C3_Witness ==
    /\ Len(timeSegments) = 2
    /\ ToSecs(timeSegments[1][1]) > ToSecs(timeSegments[2][1])
    /\ Len(concatLog) = 1
    /\ asm = "done"
    /\ highlightVideo = <<Clip(0, timeSegments[1]), Clip(1, timeSegments[2])>>

\* ---------------------------------------------------------------------
\* C4: if the cut of a range fails, the run ends in failure and has written
\* nothing to the highlight-video path.
C4_NoOutputOnCutFailure ==
    failedAt # -1 =>
        /\ asm \in {"failed", "raised"}
        /\ videoWrites = 0
        /\ pc \in {"cleanup", "idle"}

\* the second of two ranges failed after a clip was made; no video exists
C4_Witness ==
    /\ failedAt = 1
    /\ Len(clipFiles) = 1
    /\ asm = "failed"
    /\ highlightVideo = <<>>
    /\ ~tempDir
    /\ pc = "idle"

\* ---------------------------------------------------------------------
\* a text holds the section: a label, then only whitespace, then an opening
\* fence, and a closing fence somewhere after it
HasSection(text) ==
    \E a \in 1..Len(text) :
        /\ text[a].k = "label"
        /\ \E b \in (a + 1)..Len(text) :
              /\ text[b].k = "fence"
              /\ \A m \in (a + 1)..(b - 1) : text[m].k = "ws"
              /\ \E c \in (b + 1)..Len(text) : text[c].k = "fence"

\* C5: a call of _parse_highlights_for_video never raises: it returns a
\* list, and the list is empty whenever the argument holds no
\* Interesting_Moments: label followed by a block with both fences.
C5_ParserNeverRaises ==
    pc # "call" =>
        /\ pc = "returned"
        /\ ~parsed.raised
        /\ (~arg.str \/ ~HasSection(arg.toks)) => parsed.segs = <<>>

\* a labelled block with a full record but no closing fence gave []
C5_Witness ==
    /\ pc = "returned"
    /\ arg = Text(<<Tok("label", NoT), Tok("fence", NoT), Tok("title", NoT),
                    Tok("start", T10), Tok("end", T20)>>)
    /\ parsed.segs = <<>>

Complete(r) == ValidTime(r.start) /\ ValidTime(r.end)

RECURSIVE PairsOfComplete(_)
PairsOfComplete(rs) ==
    IF rs = <<>>
    THEN <<>>
    ELSE (IF Complete(Head(rs))
          THEN <<<<Head(rs).start, Head(rs).end>>>>
          ELSE <<>>) \o PairsOfComplete(Tail(rs))

C8_CutRangesValid ==
    \A k \in 1..Len(cutLog) :
        /\ 0 <= ToSecs(cutLog[k][1])
        /\ ToSecs(cutLog[k][1]) < ToSecs(cutLog[k][2])

\* ---------------------------------------------------------------------
\* C9: the ranges are cut in ascending order of start, whatever the order
\* of the records in the response (stated for consecutive cuts of ranges
\* with start < end, the claim's own example).
C9_CutsAscending ==
    \A k \in 1..(Len(cutLog) - 1) :
        (/\ ToSecs(cutLog[k][1]) < ToSecs(cutLog[k][2])
         /\ ToSecs(cutLog[k + 1][1]) < ToSecs(cutLog[k + 1][2]))
            => ToSecs(cutLog[k][1]) <= ToSecs(cutLog[k + 1][1])

\* ---------------------------------------------------------------------
\* C10: in a run that found no transcript file and got no segments (audio
\* extraction or transcription failed) the text-generation service is not
\* called, nothing is parsed and nothing is cut or stitched.
C10_TranscriptFailureHalts ==
    transcriptFailed =>
        /\ ~fullTranscript
        /\ llmCalls = 0
        /\ parseCalls = 0
        /\ highlightsText = None
        /\ cutLog = <<>>
        /\ concatLog = <<>>

\* highlights were cached, the transcript was not, transcription failed and
\* the run returned
C10_Witness ==
    /\ transcriptFailed
    /\ highlightsFile # None
    /\ ~transcriptFile
    /\ runResult = "returned"
    /\ pc = "idle"


\* ---------------------------------------------------------------- C11
\* C11: when the parser was called in a run and returned no segment, the
\* assembler is not entered (no temporary directory, no cut, no concat, no
\* write of the highlight video) and the run goes on to its cleanup step and
\* returns; it does not raise
C11_ZeroSegmentsHaltGracefully ==
    (parseCalls = 1 /\ timeSegments = <<>>) =>
        /\ asm = "none"
        /\ ~tempDir
        /\ cutLog = <<>>
        /\ concatLog = <<>>
        /\ videoWrites = 0
        /\ pc \in {"cleanup", "idle"}
        /\ (pc = "idle" => runResult = "returned")

\* a run whose highlights text had no section has returned
C11_Witness ==
    /\ pc = "idle"
    /\ runResult = "returned"
    /\ Truthy(highlightsText)
    /\ parseCalls = 1
    /\ timeSegments = <<>>


\* ---------------------------------------------------------------- C12
\* C12: once process_video has ended, by returning or by an exception that
\* left it, the temporary audio file does not exist
C12_TempAudioRemoved ==
    (pc = "idle" /\ runResult \in {"returned", "raised"}) => ~tempAudio

\* ---------------------------------------------------------------- C13
\* C13: a run that met a collaborator failure (media tool, transcription,
\* text generation) of any kind ends by returning; no failure leaves
\* process_video as an exception
C13_FailuresCaught ==
    (pc = "idle" /\ fault # NoFault) => runResult = "returned"


\* ---------------------------------------------------------------- C14
\* a step that writes the transcript file, one that writes the highlights file
TranscriptWritten == transcribeCalls' = transcribeCalls + 1 /\ fullTranscript'
HighlightsWritten == llmCalls' = llmCalls + 1 /\ Truthy(highlightsText')

\* C14: a run that found the transcript file makes no extraction and no
\* transcription call and has the transcript text; a run that found the
\* highlights file makes no text-generation call and has the file's text;
\* and a cache file is written only by a run that found it absent, at a
\* moment it is absent, so no run writes over a file that is there
C14_ReadIfPresentWriteOnce ==
    /\ [](foundTranscript =>
            extractCalls = 0 /\ transcribeCalls = 0 /\ fullTranscript)
    /\ [](foundHighlights =>
            llmCalls = 0 /\ highlightsText = highlightsFile)
    /\ [][TranscriptWritten => ~transcriptFile /\ ~foundTranscript]_vars
    /\ [][HighlightsWritten => highlightsFile = None /\ ~foundHighlights']_vars

\* a run that found both files has returned, after an earlier run wrote them
C14_Witness ==
    /\ pc = "idle"
    /\ runResult = "returned"
    /\ foundTranscript
    /\ foundHighlights
    /\ Truthy(highlightsText)
    /\ extractCalls = 0
    /\ llmCalls = 0


\* ---------------------------------------------------------------- C15
\* reading a string: its pieces between separators, the number its digits
\* spell
Kth(P, k) == CHOOSE p \in P : Cardinality({x \in P : x < p}) = k - 1

Split(cs, sep) ==
    LET seps   == {i \in 1..Len(cs) : cs[i] = sep}
        starts == {0} \cup seps
    IN  [k \in 1..Cardinality(starts) |->
            LET p == Kth(starts, k)
            IN  SubSeq(cs, p + 1,
                       Min({x \in seps : x > p} \cup {Len(cs) + 1}) - 1)]

IsDigits(ds, w) ==
    Len(ds) = w /\ \A i \in 1..Len(ds) : \E d \in 1..10 : DigitChars[d] = ds[i]

RECURSIVE NumOf(_)
NumOf(ds) ==
    IF ds = <<>> THEN 0
    ELSE 10 * NumOf(SubSeq(ds, 1, Len(ds) - 1))
         + (CHOOSE d \in 0..9 : DigitChars[d + 1] = ds[Len(ds)])

\* HH:MM:SS,mmm read as HH*3600 + MM*60 + SS + mmm/1000, in milliseconds;
\* -1 for a string of another shape
DecodeSubtitle(str) ==
    LET parts == Split(str, ":")
        tail  == IF Len(parts) = 3 THEN Split(parts[3], ",") ELSE <<>>
    IN  IF /\ Len(parts) = 3
           /\ Len(tail) = 2
           /\ IsDigits(parts[1], 2)
           /\ IsDigits(parts[2], 2)
           /\ IsDigits(tail[1], 2)
           /\ IsDigits(tail[2], 3)
        THEN (NumOf(parts[1]) * 3600 + NumOf(parts[2]) * 60 + NumOf(tail[1]))
             * 1000 + NumOf(tail[2])
        ELSE -1

Dist(a, b) == IF a >= b THEN a - b ELSE b - a

\* ms is a whole millisecond nearest to u: no other is closer
NearestMs(ms, u) == ms >= 0 /\ 2 * Dist(ms * SubMs, u) <= SubMs

\* C15: for seconds in [0, 359999.999] the subtitle-style string that
\* format_timestamp returns reads back as the seconds rounded to the nearest
\* millisecond
C15_SubtitleRoundTrip ==
    (/\ codec.op = "format"
     /\ codec.pc # "call"
     /\ codec.srt
     /\ codec.secs \in 0..MaxUnits) =>
        /\ codec.pc = "returned"
        /\ NearestMs(DecodeSubtitle(codec.out), codec.secs)

\* ---------------------------------------------------------------- C16
\* C16: format_timestamp raises and returns no string for seconds < 0, in
\* either style, and returns for every seconds >= 0
C16_NegativeFailsFast ==
    (codec.op = "format" /\ codec.pc # "call") =>
        IF codec.secs < 0
        THEN codec.pc = "raised" /\ codec.out = <<>>
        ELSE codec.pc = "returned"


\* ---------------------------------------------------------------- C17
\* reading a subtitle file: its lines, and its cues, the runs of lines
\* between blank lines
Lines(file) == Split(file, "\n")

Blocks(ls) ==
    LET blanks == {i \in 1..Len(ls) : ls[i] = <<>>}
        starts == {i \in 1..Len(ls) :
                     ls[i] # <<>> /\ (i = 1 \/ ls[i - 1] = <<>>)}
    IN  [k \in 1..Cardinality(starts) |->
            LET p == Kth(starts, k)
            IN  SubSeq(ls, p,
                       Min({x \in blanks : x > p} \cup {Len(ls) + 1}) - 1)]

\* the cue is numbered k
NumberedAs(block, k) ==
    /\ block[1] # <<>>
    /\ IsDigits(block[1], Len(block[1]))
    /\ Head(block[1]) # "0"
    /\ NumOf(block[1]) = k

\* the subtitle-style string reads as the time u, to the millisecond
ReadsAs(str, u) ==
    DecodeSubtitle(str) >= 0 /\ Dist(DecodeSubtitle(str) * SubMs, u) < SubMs

\* the second line is "<start> --> <end>" of the segment
TimedAs(block, seg) ==
    LET f == Split(block[2], " ")
    IN  /\ Len(f) = 3
        /\ f[2] = <<"-", "-", ">">>
        /\ ReadsAs(f[1], seg.start)
        /\ ReadsAs(f[3], seg.end)

\* the lines after the second are the trimmed text
TextOf(block, seg) ==
    SubSeq(block, 3, Len(block)) =
        IF Strip(seg.text) = <<>> THEN <<>> ELSE Lines(Strip(seg.text))

\* C17: the file written for n segments holds exactly n cues; the k-th is
\* numbered k, carries the subtitle-style start and end of the k-th segment
\* and its trimmed text, and a blank line ends it
C17_SrtCues ==
    (codec.op = "srt" /\ codec.pc = "returned") =>
        LET cues == Blocks(Lines(codec.out))
            n    == Len(codec.segs)
        IN  /\ Len(cues) = n
            /\ \A k \in 1..n :
                /\ Len(cues[k]) >= 2
                /\ NumberedAs(cues[k], k)
                /\ TimedAs(cues[k], codec.segs[k])
                /\ TextOf(cues[k], codec.segs[k])
            /\ n > 0 => /\ Len(codec.out) >= 2
                        /\ SubSeq(codec.out, Len(codec.out) - 1, Len(codec.out))
                           = <<"\n", "\n">>

\* a file was written for two different segments, the first with blanks
\* around its text
C17_Witness ==
    /\ codec.op = "srt"
    /\ codec.pc = "returned"
    /\ Len(codec.segs) = 2
    /\ codec.segs[1] # codec.segs[2]
    /\ Strip(codec.segs[1].text) # codec.segs[1].text
    /\ Strip(codec.segs[1].text) # <<>>
    /\ codec.out # <<>>


\* ---------------------------------------------------------------- C18
PipelineThreads == {t \in gui.threads : t.kind \in PipelineKinds}

\* C18 as stated: at most one pipeline worker thread is alive at any time,
\* no pipeline thread was started while a pipeline worker thread was alive,
\* and the pipeline never ran on the GUI thread
C18_OneWorkerAlive ==
    /\ Cardinality(PipelineThreads) <= 1
    /\ ~gui.overlap
    /\ "gui" \notin gui.ranOn

\* C18, amended: at most one pipeline worker thread is at work at any time
\* (a thread that has queued its completion callback may still be alive when
\* the next one starts), no processing, analysis or creation thread was
\* started while a thread of its own kind was alive, and the pipeline never
\* ran on the GUI thread
C18_OneWorkerAtWork ==
    /\ Cardinality({t \in PipelineThreads : t.st = "running"}) <= 1
    /\ ~gui.ownOverlap
    /\ "gui" \notin gui.ranOn

\* a request to start processing was made while the worker was at work, and
\* turned down
C18_Witness ==
    /\ gui.pc = "open"
    /\ gui.refused
    /\ \E t \in PipelineThreads : t.st = "running"
    /\ "worker" \in gui.ranOn


\* ---------------------------------------------------------------- C19
\* C19: every run of process_video that was started ends, by returning or
\* by raising, whatever the media tool and the text-generation service do
C19_RunTerminates == (runResult = "running") ~> (runResult # "running")


\* ---------------------------------------------------------------- C20
\* C20: once a run has written the highlight video no later step writes
\* that path again: every write of it finds no file there
C20_VideoWrittenOnce ==
    [][videoWrites' > videoWrites => highlightVideo = <<>>]_vars


\* ---------------------------------------------------------------- C21
\* C21: a response that reproduces the prompt's output template (its
\* Interesting\_Moments: heading, the fenced block, n >= 1 numbered records
\* with Title, Start_Time, End_Time, Why_Interesting and valid times) is
\* parsed into n pairs, the k-th holding the times of the k-th record
C21_TemplateAccepted ==
    (/\ pc = "returned"
     /\ recs # <<>>
     /\ arg = Text(RenderTemplate(recs)))
        => parsed.segs = [k \in 1..Len(recs) |-> <<recs[k].start, recs[k].end>>]


\* ---------------------------------------------------------------- C22
\* the last assembly run is over: DONE, or FAILED (an error that was logged,
\* or one that left the call)
AssemblyEnded == asm \in {"done", "failed", "raised"}

\* C22: an assembly run goes START, CUTTING(0..n-1), CONCATENATING, DONE,
\* with FAILED absorbing: the concatenation is invoked at most once in a run
\* and only when all n cuts have succeeded; the run is DONE exactly when the
\* concatenation succeeded and wrote the video, otherwise it ends FAILED;
\* once ended it hands nothing more to the media tool; the cuts go up one
\* index at a time; and a new run starts with an empty clip list at index 0
C22_AssemblyOrder ==
    /\ [](Len(concatLog) <= 1)
    /\ [](concatLog # <<>> =>
            /\ failedAt = -1
            /\ cutIdx = Len(timeSegments)
            /\ Len(cutLog) = Len(timeSegments)
            /\ Len(clipFiles) = Len(timeSegments)
            /\ AssemblyEnded)
    /\ [](asm = "done" <=> videoWrites = 1)
    /\ [](asm = "done" => concatLog # <<>>)
    /\ [](asm = "running" <=> pc = "cutting")
    /\ [][AssemblyEnded =>
            \/ /\ asm' = asm
               /\ cutLog' = cutLog
               /\ concatLog' = concatLog
               /\ videoWrites' = videoWrites
            \/ /\ asm' \in {"none", "running"}
               /\ clipFiles' = <<>>
               /\ cutIdx' = 0
               /\ cutLog' = <<>>
               /\ concatLog' = <<>>]_vars
    /\ [][asm = "running" =>
            \/ /\ asm' = "running"
               /\ cutIdx' = cutIdx + 1
               /\ Len(cutLog') = cutIdx'
               /\ Len(clipFiles') = cutIdx'
               /\ concatLog' = <<>>
            \/ AssemblyEnded']_vars
    /\ [][(asm # "running" /\ asm' = "running") =>
            clipFiles' = <<>> /\ cutIdx' = 0 /\ cutLog' = <<>>]_vars

\* after a call that made the video, a second direct call whose second cut
\* failed has returned
C22_Witness ==
    /\ pc = "caller"
    /\ asm = "failed"
    /\ failedAt = 1
    /\ Len(clipFiles) = 1
    /\ concatLog = <<>>
    /\ highlightVideo # <<>>


\* ---------------------------------------------------------------- C23
\* C23: in a response whose records each begin with a Title: line, numbered
\* or not, every returned pair holds the Start_Time and the End_Time of one
\* and the same record
C23_PairsFromOneRecord ==
    (/\ pc = "returned"
     /\ arg = Text(Render(recs))
     /\ \A k \in 1..Len(recs) : recs[k].title)
        => \A i \in 1..Len(parsed.segs) :
              \E k \in 1..Len(recs) :
                  parsed.segs[i] = <<recs[k].start, recs[k].end>>


\* ---------------------------------------------------------------- C24
\* C24: in a numbered list of records every record with a valid Start_Time
\* and a valid End_Time yields its pair, in source position, whether or not
\* it has a Title: line
C24_UntitledRecordKept ==
    (/\ pc = "returned"
     /\ arg = Text(Render(recs))
     /\ \A k \in 1..Len(recs) : recs[k].num)
        => parsed.segs = PairsOfComplete(recs)


\* ---------------------------------------------------------------- C25
\* the fields <<hh, mm, ss, mmm>> a timestamp string spells (mmm is 0 in the
\* plain style); <<>> for a string of another shape
Fields(str, srt) ==
    LET parts == Split(str, ":")
        tail  == IF Len(parts) = 3 THEN Split(parts[3], ",") ELSE <<>>
    IN  IF /\ Len(parts) = 3
           /\ Len(parts[1]) >= 2
           /\ IsDigits(parts[1], Len(parts[1]))
           /\ IsDigits(parts[2], 2)
           /\ Len(tail) = (IF srt THEN 2 ELSE 1)
           /\ IsDigits(tail[1], 2)
           /\ (srt => IsDigits(tail[2], 3))
        THEN <<NumOf(parts[1]), NumOf(parts[2]), NumOf(tail[1]),
               IF srt THEN NumOf(tail[2]) ELSE 0>>
        ELSE <<>>

MsOf(f) == ((f[1] * 60 + f[2]) * 60 + f[3]) * 1000 + f[4]

\* the seconds are less than half a millisecond short of a whole second
RoundsUpToSecond(u) == 2 * (UnitsPerSec - (u % UnitsPerSec)) < SubMs

\* C25: for seconds >= 0 the format_timestamp variants that round first
\* return a string in canonical form, in either style: two-digit minutes and
\* seconds in 0..59, three-digit milliseconds in 0..999, spelling the seconds
\* rounded to the nearest millisecond (whole seconds of it in the plain
\* style); when the rounding reaches the next second the milliseconds are
\* 000 and the carry is in the seconds, minutes and hours
C25_CanonicalFields ==
    (/\ codec.op = "format"
     /\ codec.pc # "call"
     /\ codec.fn # "extraction.main"
     /\ codec.secs >= 0) =>
        LET f == Fields(codec.out, codec.srt)
        IN  /\ codec.pc = "returned"
            /\ f # <<>>
            /\ f[2] \in 0..59
            /\ f[3] \in 0..59
            /\ f[4] \in 0..999
            /\ \E ms \in MsOf(f)..(MsOf(f) + (IF codec.srt THEN 0 ELSE 999)) :
                  NearestMs(ms, codec.secs)
            /\ RoundsUpToSecond(codec.secs) =>
                  /\ f[4] = 0
                  /\ MsOf(f) = ((codec.secs \div UnitsPerSec) + 1) * 1000

\* 59.99975 s came out as 00:01:00,000
C25_Witness ==
    /\ codec.op = "format"
    /\ codec.pc = "returned"
    /\ codec.fn = "utils"
    /\ codec.srt
    /\ codec.secs \div UnitsPerSec = 59
    /\ RoundsUpToSecond(codec.secs)
    /\ codec.out = <<"0", "0", ":", "0", "1", ":", "0", "0", ",", "0", "0", "0">>


\* ---------------------------------------------------------------- C27
\* C27: a run does not reuse a stored response that yields no segment: when
\* a run reads the highlights file (and so makes no call of the
\* text-generation service), the text in the file parses into at least one
\* segment; after a run whose response gave none, the next run asks again
C27_RetryAfterEmptyParse ==
    foundHighlights =>
        ParseHighlightsForVideo(highlightsFile).segs # <<>>

\* ---------------------------------------------------------------- C29
\* C29: a download thread and a processing (or analysis) thread are never
\* alive at the same time
C29_DownloadApartFromRun ==
    ~(/\ \E t \in gui.threads : t.kind = "download"
      /\ \E t \in gui.threads : t.kind \in {"processing", "analysis"})

\* ---------------------------------------------------------------- C30
\* C30: no manifest handed to the concatenation is empty; process_video
\* enters the assembler only with a non-empty list; and a direct call with
\* an empty list hands nothing to the media tool, writes no highlight video
\* and returns
C30_NoEmptyManifest ==
    /\ \A m \in 1..Len(concatLog) : concatLog[m] # <<>>
    /\ (runResult # "none" /\ asm # "none") => timeSegments # <<>>
    /\ (asm # "none" /\ timeSegments = <<>>) =>
          /\ cutLog = <<>>
          /\ concatLog = <<>>
          /\ videoWrites = 0
          /\ asm \in {"running", "failed"}
          /\ (asm = "failed" => pc = "caller" /\ ~tempDir)

\* a direct call with an empty list has returned; the video an earlier call
\* made is still there
C30_Witness ==
    /\ pc = "caller"
    /\ asm = "failed"
    /\ timeSegments = <<>>
    /\ cutLog = <<>>
    /\ highlightVideo # <<>>


\* ---------------------------------------------------------------- C28
\* a processing or analysis thread is at work; the select and process
\* buttons can be used
RunAtWork ==
    /\ gui.pc = "open"
    /\ \E t \in gui.threads :
          t.kind \in {"processing", "analysis"} /\ t.st = "running"
ControlsEnabled == gui.pc = "open" /\ gui.selBtn /\ gui.procBtn

\* C28: whenever a processing or analysis run is at work, the controls of
\* the main window are enabled again at some later moment, provided the
\* worker finishes and the user closes the editor, in whatever way
C28_ControlsComeBack == RunAtWork ~> ControlsEnabled


\* ---------------------------------------------------------------- C26
\* C26: over any sequence of runs on the videos, with one output directory,
\* the transcript a run works with was transcribed from the run's own video
\* and the highlights it works with were generated from that transcript
C26_CacheOfOwnVideo ==
    /\ cache.usedTranscript \in {NoVideo, cache.video}
    /\ cache.usedHighlights \in {NoVideo, cache.video}

====
